---- MODULE Spec2Model ----
(***************************************************************************)
(* Airshare sender (airshare/sender.py): send_server registers a           *)
(* Multicast-DNS service and serves a text or a file over HTTP; send       *)
(* resolves a code and uploads a file to an upload receiver.               *)
(*                                                                         *)
(* Python values are tagged records: None, Str(s), List(l), PyInt(n).  A   *)
(* text is the sequence of its pieces, a path the sequence of its          *)
(* components ("" is the empty sequence), a path list a sequence of paths. *)
(* A keyword argument of a call is drawn at the step that first reads it.  *)
(***************************************************************************)
EXTENDS Integers, Sequences, FiniteSets, TLC

\* ------------------------------------------------------------------ bounds

\* Largest size, in bytes, of the shared regular file.
MaxSize == 4

\* Largest number of writes to the shared regular file in one behaviour.
MaxWrites == 1

\* ------------------------------------------------------- program constants

\* f.read(8192): the chunk size of _file_stream_sender, scaled from 8192.
ChunkSize == 2

\* port=80: the default port of send_server.
DefaultPort == 80

\* service = "_airshare._http._tcp.local."
service == "_airshare._http._tcp.local."

\* ------------------------------------------------------------ Python values

None == [kind |-> "none"]

Str(s) == [kind |-> "str", val |-> s]

List(l) == [kind |-> "list", val |-> l]

PyInt(n) == [kind |-> "int", val |-> n]

\* Python truth value: None, "" and [] are false.
Truthy(v) ==
    CASE v.kind = "none" -> FALSE
      [] v.kind = "str"  -> v.val # <<>>
      [] v.kind = "list" -> v.val # <<>>
      [] OTHER           -> TRUE

\* `a or b`
PyOr(a, b) == IF Truthy(a) THEN a ELSE b

IsStr(v) == v.kind = "str"

IsNone(v) == v.kind = "none"

\* ------------------------------------------------------------- file system

APath == <<"docs", "a.txt">>

BPath == <<"b.txt">>

DirPath == <<"photos">>

\* The working directory, as path components.
Cwd == <<"home">>

\* os.path.isdir
IsDir(p) == p = DirPath

\* os.path.realpath of a relative path.
RealPath(p) == IF Len(p) > 0 /\ p[1] = "tmp" THEN p ELSE Cwd \o p

\* path.split(os.path.sep)[-1]
BaseName(p) == IF p = <<>> THEN <<>> ELSE <<p[Len(p)]>>

\* The contents a regular file can have: byte i of version v is 10*v + i.
FileOf(v, n) == [i \in 1..n |-> 10 * v + i]

Contents == {FileOf(0, n) : n \in 0..MaxSize} \cup {FileOf(1, MaxSize)}

\* The bytes of a generated archive (get_zip_file), whatever its inputs.
ZipBytes == <<80, 75, 5>>

\* tempfile location of the archive made by process p.
ZipPath(p) == <<"tmp", "airshare-" \o p \o ".zip">>

\* The generated display name of an archive.
ZipName == <<"airshare.zip">>

\* get_zip_file(files): the archive's path and its display name.
get_zip_file(p, files) == [path |-> Str(ZipPath(p)), name |-> Str(ZipName)]

\* --------------------------------------------------------------- processes

Servers == {"s1", "s2"}

Receivers == {"r1"}

Clients == {"c1"}

Downloads == {"d1", "d2"}

Codes == {"x", "y"}

Ports == {DefaultPort, 8000}

\* The host each process runs on, as the packed IPv4 address that
\* get_local_ip_address returns.
get_local_ip_address(p) ==
    IF p \in Servers THEN <<10, 0, 0, 1>> ELSE <<10, 0, 0, 2>>

\* socket.inet_ntoa
inet_ntoa(a) ==
    ToString(a[1]) \o "." \o ToString(a[2]) \o "." \o ToString(a[3])
        \o "." \o ToString(a[4])

\* "http://" + ip + ":" + str(port)
Url(ip, port) == "http://" \o ip \o ":" \o ToString(port)

\* code + service
InstanceName(code) == code \o service

\* The arguments a caller can pass.
TextArgs == {None, Str(<<>>), Str(<<"hi">>)}

FileArgs ==
    {None, Str(<<>>), Str(APath), Str(DirPath), List(<<>>), List(<<APath>>),
     List(<<APath, BPath>>)}

VARIABLES
    srv,        \* srv[s]: the locals of the send_server call of process s
    registry,   \* the live service records on the network
    sockets,    \* the listening sockets: [host, port, owner]
    disk,       \* the bytes of the regular file APath
    writes,     \* number of writes made to APath
    resp,       \* the last response to a plain GET request
    dl,         \* dl[d]: a GET /download request and what it has received
    cli,        \* cli[c]: the locals of the send call of process c
    rcv         \* rcv[r]: an upload receiver

vars == <<srv, registry, sockets, disk, writes, resp, dl, cli, rcv>>

\* web.Application() before any route is added.
EmptyApp ==
    [text |-> None, file_path |-> None, file_name |-> None,
     file_size |-> None, routes |-> {}]

\* A process not running send_server.  archived, artifact and touched are
\* history: whether the call made an archive, the `compress` argument line
\* 190 read, the bytes of the served file when its size was taken, and
\* whether the file was written since.
IdleServer ==
    [pc |-> "idle", code |-> "", text |-> None, file |-> None,
     content |-> None, name |-> None, info |-> None, app |-> EmptyApp,
     archived |-> FALSE, compress |-> FALSE, artifact |-> <<>>,
     touched |-> FALSE]

\* No request in progress.  artifact and touched are history: the bytes of
\* the served file when the server took its size, and whether the file was
\* written between then and the end of the download.
IdleDownload ==
    [state |-> "idle", server |-> "", headers |-> None, event |-> FALSE,
     pos |-> 0, chunks |-> <<>>, artifact |-> <<>>, touched |-> FALSE]

\* return n
Return(n, said) == [kind |-> "return", code |-> n, said |-> said]

\* raise error
Raise(error) == [kind |-> "raise", code |-> -1, said |-> error]

\* A process not running send.  lookups, gets, posts and archived are
\* history: the discovery lookups, GET and POST requests issued by the call
\* and whether it made an archive; arg is the `file` argument as passed.
IdleClient ==
    [pc |-> "idle", code |-> "", arg |-> None, compress |-> FALSE,
     file |-> None, name |-> None, info |-> None, airshare_type |-> None,
     post |-> None, result |-> None, lookups |-> 0, gets |-> 0, posts |-> 0,
     archived |-> FALSE]

\* An upload receiver that is not running.
IdleReceiver == [pc |-> "idle", info |-> None, stored |-> None]

Init ==
    /\ srv = [s \in Servers |-> IdleServer]
    /\ registry = {}
    /\ sockets = {}
    /\ disk = FileOf(0, 3)
    /\ writes = 0
    /\ resp = None
    /\ dl = [d \in Downloads |-> IdleDownload]
    /\ cli = [c \in Clients |-> IdleClient]
    /\ rcv = [r \in Receivers |-> IdleReceiver]

\* ------------------------------------------------------------- send_server

\* zeroconf.get_service_info(service, name): the live records of that name
\* (None when no responder answers).
get_service_info(type, name) ==
    LET found == {r \in registry : r.type = type /\ r.name = name}
    IN  IF found = {} THEN {None} ELSE found

\* Lookup without the `info is not None` test of line 173.
LookupUnchecked(s, code) ==
    /\ srv[s].pc = "idle"
    /\ srv' = [srv EXCEPT ![s] = [@ EXCEPT !.code = code, !.pc = "prepare"]]
    /\ UNCHANGED <<registry, sockets, disk, writes, resp, dl, cli, rcv>>

\* Lines 170-175: the existence lookup; a live record of the code raises
\* ValueError.
Lookup(s, code) ==
    /\ srv[s].pc = "idle"
    /\ \E info \in get_service_info(service, InstanceName(code)) :
         srv' = [srv EXCEPT ![s] =
                   [@ EXCEPT !.code = code,
                             !.pc = IF ~IsNone(info) THEN "collision"
                                    ELSE "prepare"]]
    /\ UNCHANGED <<registry, sockets, disk, writes, resp, dl, cli, rcv>>

\* Lines 176-183: "" and [] become None; None is kept.
NormaliseServerFile(file) ==
    IF ~IsNone(file)
    THEN IF file.kind = "str"
         THEN IF file.val = <<>> THEN None ELSE List(<<file.val>>)
         ELSE IF Len(file.val) = 0 THEN None ELSE file
    ELSE file

\* An archive condition that leaves out the directory test.
NeedsArchiveNoDir(file, compress) ==
    compress \/ Len(file.val) > 1

\* Line 190: compress or len(file) > 1 or os.path.isdir(file[0])
NeedsArchive(file, compress) ==
    compress \/ Len(file.val) > 1 \/ IsDir(file.val[1])

\* Content selection without the check of lines 186-188: a call with no
\* content goes on to registration.
PrepareUnchecked(s, text, file0, compress) ==
    /\ srv[s].pc = "prepare"
    /\ LET file == NormaliseServerFile(file0)
       IN  srv' = [srv EXCEPT ![s] =
             [@ EXCEPT !.pc = "register", !.text = text, !.file = file,
                       !.content = PyOr(text, file)]]
    /\ UNCHANGED <<registry, sockets, disk, writes, resp, dl, cli, rcv>>

\* Lines 176-193: content selection and packaging.
Prepare(s, text, file0, compress) ==
    /\ srv[s].pc = "prepare"
    /\ LET file    == NormaliseServerFile(file0)
           content == PyOr(text, file)
       IN  srv' = [srv EXCEPT ![s] =
             IF IsNone(content)
             THEN [@ EXCEPT !.pc = "nocontent", !.text = text, !.file = file]
             ELSE IF IsNone(text) /\ ~IsNone(file)
             THEN IF NeedsArchive(file, compress)
                  THEN [@ EXCEPT !.pc = "register", !.text = text,
                                 !.file = file, !.compress = compress,
                                 !.content = get_zip_file(s, file.val).path,
                                 !.name = get_zip_file(s, file.val).name,
                                 !.archived = TRUE]
                  ELSE [@ EXCEPT !.pc = "register", !.text = text,
                                 !.file = file, !.compress = compress,
                                 !.content = Str(file.val[1])]
             ELSE [@ EXCEPT !.pc = "register", !.text = text, !.file = file,
                            !.content = content]]
    /\ UNCHANGED <<registry, sockets, disk, writes, resp, dl, cli, rcv>>

\* Lines 194-201: the ServiceInfo of the call.
ServiceInfo(s, code, port) ==
    [kind |-> "info", type |-> service, name |-> InstanceName(code),
     addresses |-> <<get_local_ip_address(s)>>, port |-> port,
     server |-> code \o ".local.", owner |-> s]

\* Line 202, first half: register_service probes the network for the name
\* and raises NonUniqueNameException when a live record answers.
RegisterProbe(s, port) ==
    /\ srv[s].pc = "register"
    /\ LET info == ServiceInfo(s, srv[s].code, port)
       IN  srv' = [srv EXCEPT ![s] =
             [@ EXCEPT !.info = info,
                       !.pc = IF \E r \in registry : r.name = info.name
                              THEN "nonunique" ELSE "announce"]]
    /\ UNCHANGED <<registry, sockets, disk, writes, resp, dl, cli, rcv>>

\* Line 202, second half: the record is broadcast and answers lookups.
RegisterAnnounce(s) ==
    /\ srv[s].pc = "announce"
    /\ registry' = registry \cup {srv[s].info}
    /\ srv' = [srv EXCEPT ![s].pc = "site"]
    /\ UNCHANGED <<sockets, disk, writes, resp, dl, cli, rcv>>

\* The bytes of the file at a path.
Bytes(path) == IF path = RealPath(APath) THEN disk ELSE ZipBytes

\* os.stat(path).st_size
StatSize(path) == Len(Bytes(path))

\* The text routes with the download route added as well.
TextRoutesWithDownload ==
    {[path |-> "/", handler |-> "_text_sender"],
     [path |-> "/airshare", handler |-> "_is_airshare_text_sender"],
     [path |-> "/download", handler |-> "_file_stream_sender"]}

\* Lines 209-210: the routes of a text sender.
TextRoutes ==
    {[path |-> "/", handler |-> "_text_sender"],
     [path |-> "/airshare", handler |-> "_is_airshare_text_sender"]}

\* Lines 217-219: the routes of a file sender.
FileRoutes ==
    {[path |-> "/", handler |-> "_download_page"],
     [path |-> "/airshare", handler |-> "_is_airshare_file_sender"],
     [path |-> "/download", handler |-> "_file_stream_sender"]}

\* Lines 205-219: the application of the call: its role's state and routes.
BuildApp(l) ==
    IF ~IsNone(l.text)
    THEN [l EXCEPT !.app = [EmptyApp EXCEPT !.text = l.content,
                                            !.routes = TextRoutes]]
    ELSE IF Truthy(l.file)
    THEN LET file_path == RealPath(l.content.val)
             file_name == PyOr(l.name, Str(BaseName(file_path)))
         IN  [l EXCEPT !.app = [text |-> None,
                                file_path |-> Str(file_path),
                                file_name |-> file_name,
                                file_size |-> PyInt(StatSize(file_path)),
                                routes |-> FileRoutes],
                       !.content = file_name,
                       !.artifact = Bytes(file_path)]
    ELSE l

\* A site that always listens on the default port, whatever port the
\* record advertises.
StartSiteDefaultPort(s) ==
    /\ srv[s].pc = "site"
    /\ LET l    == BuildApp(srv[s])
           host == get_local_ip_address(s)
           port == DefaultPort
       IN  IF \E k \in sockets : k.host = host /\ k.port = port
           THEN /\ srv' = [srv EXCEPT ![s] = [l EXCEPT !.pc = "bind_failed"]]
                /\ UNCHANGED sockets
           ELSE /\ srv' = [srv EXCEPT ![s] = [l EXCEPT !.pc = "bound"]]
                /\ sockets' = sockets \cup
                                {[host |-> host, port |-> port, owner |-> s]}
    /\ UNCHANGED <<registry, disk, writes, resp, dl, cli, rcv>>

\* StartSite moved before line 202: the site starts before registration.
StartSiteBeforeRegister(s) ==
    /\ srv[s].pc \in {"announce", "site"}
    /\ LET l    == BuildApp(srv[s])
           host == get_local_ip_address(s)
           port == l.info.port
       IN  IF \E k \in sockets : k.host = host /\ k.port = port
           THEN /\ srv' = [srv EXCEPT ![s] = [l EXCEPT !.pc = "bind_failed"]]
                /\ UNCHANGED sockets
           ELSE /\ srv' = [srv EXCEPT ![s] = [l EXCEPT !.pc = "bound"]]
                /\ sockets' = sockets \cup
                                {[host |-> host, port |-> port, owner |-> s]}
    /\ UNCHANGED <<registry, disk, writes, resp, dl, cli, rcv>>

\* Lines 203-223: the application is built and the site starts listening on
\* 0.0.0.0:port; a port in use on the host raises OSError.
StartSite(s) ==
    /\ srv[s].pc = "site"
    /\ LET l    == BuildApp(srv[s])
           host == get_local_ip_address(s)
           port == l.info.port
       IN  IF \E k \in sockets : k.host = host /\ k.port = port
           THEN /\ srv' = [srv EXCEPT ![s] = [l EXCEPT !.pc = "bind_failed"]]
                /\ UNCHANGED sockets
           ELSE /\ srv' = [srv EXCEPT ![s] = [l EXCEPT !.pc = "bound"]]
                /\ sockets' = sockets \cup
                                {[host |-> host, port |-> port, owner |-> s]}
    /\ UNCHANGED <<registry, disk, writes, resp, dl, cli, rcv>>

\* Lines 224-232: the availability message is printed ("`" + content + ...
\* raises TypeError unless content is a str) and the loop runs forever.
RunForever(s) ==
    /\ srv[s].pc = "bound"
    /\ srv' = [srv EXCEPT ![s].pc = IF IsStr(srv[s].content) THEN "serving"
                                    ELSE "crashed"]
    /\ UNCHANGED <<registry, sockets, disk, writes, resp, dl, cli, rcv>>

Ended == {"collision", "nocontent", "nonunique", "bind_failed", "crashed"}

\* The process ends (the raised error, or external termination of a serving
\* process): its record stops answering and its socket closes.
ProcessEnd(s) ==
    /\ srv[s].pc \in Ended \cup {"serving"}
    /\ srv' = [srv EXCEPT ![s] = IdleServer]
    /\ registry' = {r \in registry : r.owner # s}
    /\ sockets' = {k \in sockets : k.owner # s}
    /\ dl' = [d \in Downloads |->
                IF dl[d].server = s /\ dl[d].state = "streaming"
                THEN [dl[d] EXCEPT !.state = "aborted"] ELSE dl[d]]
    /\ UNCHANGED <<disk, writes, resp, cli, rcv>>

\* The steps of send_server in process s, its arguments drawn from the
\* given sets.
ServerStepOn(s, codes, texts, files, ports) ==
    \/ \E code \in codes : Lookup(s, code)
    \/ \E text \in texts, file \in files, compress \in BOOLEAN :
         Prepare(s, text, file, compress)
    \/ \E port \in ports : RegisterProbe(s, port)
    \/ RegisterAnnounce(s)
    \/ StartSite(s)
    \/ RunForever(s)
    \/ ProcessEnd(s)

ServerStep(s) == ServerStepOn(s, Codes, TextArgs, FileArgs, Ports)

\* Two processes calling send_server, with every form of the arguments.
Next == \E s \in Servers : ServerStep(s)

Spec == Init /\ [][Next]_vars

\* -------------------------------------------------------- request handlers

\* The paths requests are made to.
Paths == {"/", "/airshare", "/download", "/upload"}

\* The handler the router of an application finds for GET path, or none.
HandlerOf(app, path) ==
    IF \E r \in app.routes : r.path = path
    THEN (CHOOSE r \in app.routes : r.path = path).handler
    ELSE "none"

\* web.Response(text=...): a text that is no str raises TypeError, which the
\* server answers with status 500.
Response(text, event) ==
    IF IsStr(text)
    THEN [kind |-> "response", status |-> 200, text |-> text, event |-> event]
    ELSE [kind |-> "response", status |-> 500,
          text |-> Str(<<"500 Internal Server Error">>), event |-> event]

\* A text handler that returns the text and prints nothing.
text_sender_silent(app) == Response(app.text, FALSE)

\* Lines 28-36: _text_sender prints the transfer and returns app["text"].
text_sender(app) == Response(app.text, TRUE)

\* Lines 39-56: _download_page names the file and its size; it prints nothing.
download_page(app) ==
    Response(Str(<<"Download", app.file_name, app.file_size>>), FALSE)

\* Lines 85-87.
is_airshare_text_sender == Response(Str(<<"Text Sender">>), FALSE)

\* Lines 90-92.
is_airshare_file_sender == Response(Str(<<"File Sender">>), FALSE)

\* The answer of an application to a GET that is not a download.
Respond(app, path) ==
    LET h == HandlerOf(app, path)
    IN  CASE h = "_text_sender" -> text_sender(app)
          [] h = "_download_page" -> download_page(app)
          [] h = "_is_airshare_text_sender" -> is_airshare_text_sender
          [] h = "_is_airshare_file_sender" -> is_airshare_file_sender
          [] OTHER -> [kind |-> "response", status |-> 404,
                       text |-> Str(<<"404: Not Found">>), event |-> FALSE]

\* A GET request served by the loop of a running server.  The answer is
\* kept with the path asked for and the handler the router chose.
HttpGet(s, path) ==
    /\ srv[s].pc = "serving"
    /\ HandlerOf(srv[s].app, path) # "_file_stream_sender"
    /\ LET r == Respond(srv[s].app, path)
       IN  resp' = [kind |-> path, handler |-> HandlerOf(srv[s].app, path),
                    status |-> r.status, text |-> r.text, event |-> r.event]
    /\ UNCHANGED <<srv, registry, sockets, disk, writes, dl, cli, rcv>>

\* magic.Magic(mime=True).from_file: the type sniffed from the bytes.
Mime(bytes) ==
    IF bytes = <<>> THEN "inode/x-empty"
    ELSE IF bytes[1] = 80 THEN "application/zip"
    ELSE IF bytes[1] < 10 THEN "text/plain"
    ELSE "application/octet-stream"

\* Lines 59-76: _file_stream_sender prints the transfer, sets the headers
\* and prepares the response.
DownloadRequest(d, s) ==
    /\ dl[d].state = "idle"
    /\ srv[s].pc = "serving"
    /\ HandlerOf(srv[s].app, "/download") = "_file_stream_sender"
    /\ LET app == srv[s].app
       IN  dl' = [dl EXCEPT ![d] =
             [state |-> "streaming", server |-> s, event |-> TRUE,
              headers |->
                [kind |-> "headers",
                 content_type |-> Mime(Bytes(app.file_path.val)),
                 content_length |-> ToString(app.file_size.val),
                 content_disposition |->
                   <<"attachment", app.file_name.val,
                     ToString(app.file_size.val)>>],
              pos |-> 0, chunks |-> <<>>, artifact |-> srv[s].artifact,
              touched |-> srv[s].touched]]
    /\ UNCHANGED <<srv, registry, sockets, disk, writes, resp, cli, rcv>>

\* A read that returns only whole chunks: a short last chunk is dropped.
ReadWholeChunks(bytes, pos, n) ==
    IF pos + n > Len(bytes) THEN <<>> ELSE SubSeq(bytes, pos + 1, pos + n)

\* f.read(n) at position pos of a file.
Read(bytes, pos, n) ==
    IF pos >= Len(bytes) THEN <<>>
    ELSE SubSeq(bytes, pos + 1,
                IF pos + n < Len(bytes) THEN pos + n ELSE Len(bytes))

\* A loop that reads through one file object shared by the requests of a
\* server: every read starts where the furthest request left off.
DownloadChunkSharedHandle(d) ==
    /\ dl[d].state = "streaming"
    /\ LET s      == dl[d].server
           others == {e \in Downloads :
                        dl[e].state = "streaming" /\ dl[e].server = s}
           pos    == CHOOSE p \in {dl[e].pos : e \in others} :
                        \A e \in others : dl[e].pos <= p
           chunk  == Read(Bytes(srv[s].app.file_path.val), pos, ChunkSize)
       IN  dl' = [dl EXCEPT ![d] =
             IF chunk # <<>>
             THEN [@ EXCEPT !.chunks = Append(@, chunk),
                            !.pos = pos + Len(chunk)]
             ELSE [@ EXCEPT !.state = "done"]]
    /\ UNCHANGED <<srv, registry, sockets, disk, writes, resp, cli, rcv>>

\* Lines 77-82: one pass of the loop: the next chunk is read from the
\* request's own file object and written, and the handler yields; an empty
\* read ends the stream.
DownloadChunk(d) ==
    /\ dl[d].state = "streaming"
    /\ LET s     == dl[d].server
           chunk == Read(Bytes(srv[s].app.file_path.val), dl[d].pos,
                         ChunkSize)
       IN  dl' = [dl EXCEPT ![d] =
             IF chunk # <<>>
             THEN [@ EXCEPT !.chunks = Append(@, chunk),
                            !.pos = @ + Len(chunk)]
             ELSE [@ EXCEPT !.state = "done"]]
    /\ UNCHANGED <<srv, registry, sockets, disk, writes, resp, cli, rcv>>

\* The requester is done with a finished or aborted download.
DownloadClose(d) ==
    /\ dl[d].state \in {"done", "aborted"}
    /\ dl' = [dl EXCEPT ![d] = IdleDownload]
    /\ UNCHANGED <<srv, registry, sockets, disk, writes, resp, cli, rcv>>

\* Another program rewrites the regular file APath.
Modify(bytes) ==
    /\ writes < MaxWrites
    /\ bytes # disk
    /\ disk' = bytes
    /\ writes' = writes + 1
    /\ srv' = [s \in Servers |->
                 IF srv[s].app.file_path = Str(RealPath(APath))
                 THEN [srv[s] EXCEPT !.touched = TRUE] ELSE srv[s]]
    /\ dl' = [d \in Downloads |->
                IF /\ dl[d].state = "streaming"
                   /\ srv[dl[d].server].app.file_path = Str(RealPath(APath))
                THEN [dl[d] EXCEPT !.touched = TRUE] ELSE dl[d]]
    /\ UNCHANGED <<registry, sockets, resp, cli, rcv>>

\* ------------------------------------------------------- upload receivers

\* The upload receiver (airshare/receiver.py) as the design describes it:
\* it registers its name, listens, answers GET /airshare with "Upload
\* Receiver" and stores the file of a POST /upload.
ReceiverStart(r, code, port) ==
    /\ rcv[r].pc = "idle"
    /\ \A x \in registry : x.name # InstanceName(code)
    /\ \A k \in sockets :
         ~(k.host = get_local_ip_address(r) /\ k.port = port)
    /\ LET info == ServiceInfo(r, code, port)
       IN  /\ rcv' = [rcv EXCEPT ![r] = [@ EXCEPT !.pc = "serving",
                                                   !.info = info]]
           /\ registry' = registry \cup {info}
           /\ sockets' = sockets \cup
                {[host |-> get_local_ip_address(r), port |-> port,
                  owner |-> r]}
    /\ UNCHANGED <<srv, disk, writes, resp, dl, cli>>

\* The receiver process is terminated.
ReceiverStop(r) ==
    /\ rcv[r].pc = "serving"
    /\ rcv' = [rcv EXCEPT ![r] = IdleReceiver]
    /\ registry' = {x \in registry : x.owner # r}
    /\ sockets' = {k \in sockets : k.owner # r}
    /\ UNCHANGED <<srv, disk, writes, resp, dl, cli>>

\* -------------------------------------------------------------------- send

\* The sockets a request to url reaches.
ListenersAt(url) ==
    {k \in sockets : Url(inet_ntoa(k.host), k.port) = url}

\* Whether the process owning a socket is serving requests.
IsServing(p) ==
    IF p \in Servers THEN srv[p].pc = "serving" ELSE rcv[p].pc = "serving"

\* An upload receiver answers GET /airshare with its role identifier.
is_airshare_upload_receiver == Response(Str(<<"Upload Receiver">>), FALSE)

\* The answer of process p to GET /airshare.
AirshareOf(p) ==
    IF p \in Servers THEN Respond(srv[p].app, "/airshare")
    ELSE is_airshare_upload_receiver

\* A lookup that goes on to validation when the service is absent.
SendLookupUnchecked(c, code, file, compress) ==
    /\ cli[c].pc = "idle"
    /\ \E info \in get_service_info(service, InstanceName(code)) :
         cli' = [cli EXCEPT ![c] =
           [@ EXCEPT !.pc = "validate", !.code = code, !.arg = file,
                     !.compress = compress, !.info = info,
                     !.lookups = @ + 1]]
    /\ UNCHANGED <<srv, registry, sockets, disk, writes, resp, dl, rcv>>

\* Lines 117-122: the discovery lookup; an absent service returns 1.
SendLookup(c, code, file, compress) ==
    /\ cli[c].pc = "idle"
    /\ \E info \in get_service_info(service, InstanceName(code)) :
         cli' = [cli EXCEPT ![c] =
           IF IsNone(info)
           THEN [@ EXCEPT !.pc = "done", !.code = code, !.arg = file,
                          !.compress = compress, !.info = info,
                          !.lookups = @ + 1,
                          !.result = Return(1, "does not exist")]
           ELSE [@ EXCEPT !.pc = "validate", !.code = code, !.arg = file,
                          !.compress = compress, !.info = info,
                          !.lookups = @ + 1]]
    /\ UNCHANGED <<srv, registry, sockets, disk, writes, resp, dl, rcv>>

\* A normalisation that wraps "" like any other path and keeps [].
NormaliseClientFileKeepEmpty(file) ==
    IF file.kind = "str" THEN List(<<file.val>>)
    ELSE IF file.kind = "none" THEN Raise("TypeError")
    ELSE IF Len(file.val) = 0 THEN List(<<<<>>>>) ELSE file

\* Lines 123-129: "" and [] become None; len(None) raises TypeError.
NormaliseClientFile(file) ==
    IF file.kind = "str"
    THEN IF file.val = <<>> THEN None ELSE List(<<file.val>>)
    ELSE IF file.kind = "none" THEN Raise("TypeError")
    ELSE IF Len(file.val) = 0 THEN None ELSE file

\* Line 132: compress or len(file) > 1 or os.path.isdir(file[0])
SendNeedsArchive(file, compress) ==
    compress \/ Len(file.val) > 1 \/ IsDir(file.val[1])

\* Lines 123-135: validation of `file`, then packaging.
SendValidate(c) ==
    /\ cli[c].pc = "validate"
    /\ LET file == NormaliseClientFile(cli[c].arg)
       IN  cli' = [cli EXCEPT ![c] =
             IF file.kind = "raise"
             THEN [@ EXCEPT !.pc = "done", !.result = file]
             ELSE IF IsNone(file)
             THEN [@ EXCEPT !.pc = "done", !.file = file,
                            !.result = Raise("ValueError")]
             ELSE IF SendNeedsArchive(file, cli[c].compress)
             THEN [@ EXCEPT !.pc = "query",
                            !.file = get_zip_file(c, file.val).path,
                            !.name = get_zip_file(c, file.val).name,
                            !.archived = TRUE]
             ELSE [@ EXCEPT !.pc = "query", !.file = Str(file.val[1]),
                            !.name = Str(BaseName(file.val[1]))]]
    /\ UNCHANGED <<srv, registry, sockets, disk, writes, resp, dl, rcv>>

\* The url send builds from the resolved record (lines 136-137).
UrlOf(info) == Url(inet_ntoa(info.addresses[1]), info.port)

\* A role test that only rejects text senders.
IsUploadReceiverLoose(airshare_type) ==
    airshare_type.text # Str(<<"Text Sender">>)

\* Line 139: airshare_type.text compared with the literal.
IsUploadReceiver(airshare_type) ==
    airshare_type.text = Str(<<"Upload Receiver">>)

\* Lines 136-141: GET /airshare on the resolved address; any answer other
\* than "Upload Receiver" returns 1.  With no listener the request raises
\* ConnectionError; it waits while the listener is not yet serving.
SendQuery(c) ==
    /\ cli[c].pc = "query"
    /\ LET url == UrlOf(cli[c].info)
       IN  IF ListenersAt(url) = {}
           THEN cli' = [cli EXCEPT ![c] =
                  [@ EXCEPT !.pc = "done", !.gets = @ + 1,
                            !.result = Raise("ConnectionError")]]
           ELSE \E k \in ListenersAt(url) :
                  /\ IsServing(k.owner)
                  /\ LET airshare_type == AirshareOf(k.owner)
                     IN  cli' = [cli EXCEPT ![c] =
                           IF ~IsUploadReceiver(airshare_type)
                           THEN [@ EXCEPT
                                   !.pc = "done", !.gets = @ + 1,
                                   !.airshare_type = airshare_type,
                                   !.result =
                                     Return(1, "is not an upload receiver")]
                           ELSE [@ EXCEPT !.pc = "post", !.gets = @ + 1,
                                          !.airshare_type = airshare_type]]
    /\ UNCHANGED <<srv, registry, sockets, disk, writes, resp, dl, rcv>>

\* The statuses with which a receiver answers POST /upload: the file is
\* stored, or storing it failed.
UploadStatuses == {200, 500}

\* Lines 142-145: the file is posted to /upload, the response is dropped and
\* 0 is returned.  With no listener the request raises ConnectionError.
SendPost(c) ==
    /\ cli[c].pc = "post"
    /\ LET url == UrlOf(cli[c].info)
       IN  IF ListenersAt(url) = {}
           THEN /\ cli' = [cli EXCEPT ![c] =
                     [@ EXCEPT !.pc = "done", !.posts = @ + 1,
                               !.result = Raise("ConnectionError")]]
                /\ UNCHANGED rcv
           ELSE \E k \in ListenersAt(url), status \in UploadStatuses :
                  /\ IsServing(k.owner)
                  /\ k.owner \in Receivers
                  /\ rcv' = [rcv EXCEPT ![k.owner].stored =
                               IF status = 200 THEN cli[c].name ELSE @]
                  /\ cli' = [cli EXCEPT ![c] =
                       [@ EXCEPT !.pc = "done", !.posts = @ + 1,
                                 !.post = PyInt(status),
                                 !.result = Return(0, "Uploaded")]]
    /\ UNCHANGED <<srv, registry, sockets, disk, writes, resp, dl>>

\* The call is over; the process may call send again.
SendEnd(c) ==
    /\ cli[c].pc = "done"
    /\ cli' = [cli EXCEPT ![c] = IdleClient]
    /\ UNCHANGED <<srv, registry, sockets, disk, writes, resp, dl, rcv>>

\* ---------------------------------------------------------- specifications

\* One server process with every form of the arguments, and the plain GET
\* requests made to it.
NextServe ==
    \/ ServerStep("s1")
    \/ \E path \in Paths : HttpGet("s1", path)

SpecServe == Init /\ [][NextServe]_vars

\* One server process sharing a file, the downloads made from it and the
\* writes to the file it shares.
NextDownload ==
    \/ ServerStepOn("s1", {"x"}, {None},
                    {Str(APath), List(<<APath, BPath>>)}, {DefaultPort})
    \/ \E d \in Downloads : DownloadRequest(d, "s1")
    \/ \E d \in Downloads : DownloadChunk(d)
    \/ \E d \in Downloads : DownloadClose(d)
    \/ \E bytes \in Contents : Modify(bytes)

SpecDownload == Init /\ [][NextDownload]_vars

\* One process calling send, one upload receiver, and one server process
\* sharing a text or a file.
NextSend ==
    \/ \E code \in Codes, file \in FileArgs, compress \in BOOLEAN :
         SendLookup("c1", code, file, compress)
    \/ SendValidate("c1")
    \/ SendQuery("c1")
    \/ SendPost("c1")
    \/ SendEnd("c1")
    \/ \E code \in Codes, port \in Ports : ReceiverStart("r1", code, port)
    \/ ReceiverStop("r1")
    \/ ServerStepOn("s1", Codes, {None, Str(<<"hi">>)}, {None, Str(APath)},
                    Ports)

SpecSend == Init /\ [][NextSend]_vars

\* One process calling send while one server process shares a text or a
\* file, with every form of the arguments on both sides.  No upload receiver
\* runs, so the call never gets as far as the POST.
NextPackage ==
    \/ \E code \in Codes, file \in FileArgs, compress \in BOOLEAN :
         SendLookup("c1", code, file, compress)
    \/ SendValidate("c1")
    \/ SendQuery("c1")
    \/ SendEnd("c1")
    \/ ServerStepOn("s1", {"x"}, TextArgs, FileArgs, {DefaultPort})

SpecPackage == Init /\ [][NextPackage]_vars

\* One server process with every form of the arguments, answering page
\* requests and one download.
NextObserve ==
    \/ ServerStep("s1")
    \/ \E path \in Paths : HttpGet("s1", path)
    \/ DownloadRequest("d1", "s1")
    \/ DownloadChunk("d1")
    \/ DownloadClose("d1")

SpecObserve == Init /\ [][NextObserve]_vars

\* Two server processes sharing a text, and one process calling send with a
\* file.  No upload receiver runs, so the call never gets as far as the POST.
NextDiscover ==
    \/ \E s \in Servers :
         ServerStepOn(s, Codes, {Str(<<"hi">>)}, {None}, Ports)
    \/ \E code \in Codes : SendLookup("c1", code, Str(APath), FALSE)
    \/ SendValidate("c1")
    \/ SendQuery("c1")
    \/ SendEnd("c1")

SpecDiscover == Init /\ [][NextDiscover]_vars

\* ------------------------------------------------------------------ claims

\* The live records of a code.
Live(code) == {r \in registry : r.name = InstanceName(code)}

\* C1: a send_server call that begins while a record of its code is live
\* fails with the already-exists error, leaves the registry unchanged, and
\* never registers or binds; a call with a code that has no live record
\* passes the lookup and, reaching registration with the name still free,
\* registers its record while the other records stay.
C1_SequentialExclusivity ==
    /\ [](\A s \in Servers :
            srv[s].pc = "collision" =>
              /\ \A r \in registry : r.owner # s
              /\ \A k \in sockets : k.owner # s)
    /\ [][\A s \in Servers :
            /\ (srv[s].pc = "idle" /\ srv'[s].pc # "idle") =>
                 IF Live(srv'[s].code) # {}
                 THEN srv'[s].pc = "collision" /\ registry' = registry
                      /\ sockets' = sockets
                 ELSE srv'[s].pc = "prepare"
            /\ (srv[s].pc = "collision" /\ srv'[s].pc # "collision") =>
                 srv'[s].pc = "idle" /\ registry' = registry
            /\ (srv[s].pc = "register" /\ srv'[s].pc # "register"
                  /\ Live(srv[s].code) = {}) => srv'[s].pc = "announce"
            /\ (srv[s].pc = "announce" /\ srv'[s].pc # "announce") =>
                 /\ srv[s].info \in registry'
                 /\ registry \subseteq registry']_vars

\* C1 witness: a call collided with the live record of another process.
C1_Witness ==
    \E s \in Servers :
      /\ srv[s].pc = "collision"
      /\ \E r \in Live(srv[s].code) : r.owner # s
      /\ \A r \in registry : r.owner # s

\* C2: at most one live record per name, in every interleaving of two
\* send_server calls.
C2_AtMostOneRecordPerName ==
    \A r1, r2 \in registry : r1.name = r2.name => r1 = r2

\* C3: a process listens only after its own registration completed, and a
\* call whose registration failed never listens or serves.
C3_RegistrationPrecedesBinding ==
    /\ [](\A k \in sockets :
            /\ srv[k.owner].pc \in {"bound", "serving", "crashed"}
            /\ srv[k.owner].info \in registry)
    /\ [](\A s \in Servers :
            srv[s].pc \in {"collision", "nonunique"} =>
              \A k \in sockets : k.owner # s)
    /\ [][\A s \in Servers :
            srv[s].pc \in {"collision", "nonunique"} =>
              srv'[s].pc \in {srv[s].pc, "idle"}]_vars

\* C3 witness: one process listens with its record registered while another
\* call has failed registration.
C3_Witness ==
    \E s, t \in Servers :
      /\ srv[s].pc = "serving"
      /\ srv[s].info \in registry
      /\ \E k \in sockets : k.owner = s
      /\ srv[t].pc \in {"collision", "nonunique"}

\* The literal an upload receiver answers GET /airshare with.
UploadReceiverText == Str(<<"Upload Receiver">>)

\* C4: send posts to /upload only after GET /airshare answered exactly
\* "Upload Receiver"; after any other answer it returns 1 with the role
\* mismatch message and has sent no POST.
C4_RoleEnforcement ==
    \A c \in Clients :
      /\ (cli[c].pc = "post" \/ cli[c].posts > 0) =>
           /\ ~IsNone(cli[c].airshare_type)
           /\ cli[c].airshare_type.text = UploadReceiverText
      /\ (~IsNone(cli[c].airshare_type)
            /\ cli[c].airshare_type.text # UploadReceiverText) =>
           /\ cli[c].pc = "done"
           /\ cli[c].result = Return(1, "is not an upload receiver")
           /\ cli[c].posts = 0

\* C4 witness: send resolved a file sender and returned 1 without a POST.
C4_Witness ==
    \E c \in Clients :
      /\ cli[c].pc = "done"
      /\ ~IsNone(cli[c].airshare_type)
      /\ cli[c].airshare_type.text = Str(<<"File Sender">>)
      /\ cli[c].result.code = 1
      /\ cli[c].posts = 0

\* The empty forms of `file` that send turns into None: "" and [].
IsEmptyForm(arg) == arg.kind \in {"str", "list"} /\ arg.val = <<>>

\* C5 as claimed: send with "" or [] as `file` fails with the invalid-input
\* error and makes no discovery lookup, whether or not the service exists.
C5_NoDiscoveryOnEmptyInput ==
    \A c \in Clients :
      (cli[c].pc # "idle" /\ IsEmptyForm(cli[c].arg)) =>
        /\ cli[c].lookups = 0
        /\ cli[c].pc = "done" => cli[c].result = Raise("ValueError")

\* C5 amended: send with "" or [] as `file` first makes its one discovery
\* lookup; when the service exists it then raises ValueError, when it does
\* not it returns 1; either way it sends no HTTP request and makes no
\* archive.
C5_EmptyInputAfterDiscovery ==
    \A c \in Clients :
      (cli[c].pc # "idle" /\ IsEmptyForm(cli[c].arg)) =>
        /\ cli[c].pc \in {"validate", "done"}
        /\ cli[c].lookups = 1
        /\ cli[c].gets = 0 /\ cli[c].posts = 0 /\ ~cli[c].archived
        /\ cli[c].pc = "done" =>
             cli[c].result = IF IsNone(cli[c].info)
                             THEN Return(1, "does not exist")
                             ELSE Raise("ValueError")

\* C5 witness: the service exists and send raised ValueError for an empty
\* `file` after one lookup.
C5_Witness ==
    \E c \in Clients :
      /\ cli[c].pc = "done"
      /\ IsEmptyForm(cli[c].arg)
      /\ ~IsNone(cli[c].info)
      /\ cli[c].result = Raise("ValueError")
      /\ cli[c].lookups = 1

\* C6: when the lookup finds no record, send returns 1 with the not-found
\* message after that single lookup, having sent no GET and no POST and
\* made no archive, and the call does nothing more.
C6_AbsentService ==
    /\ [](\A c \in Clients :
            (cli[c].pc # "idle" /\ IsNone(cli[c].info)) =>
              /\ cli[c].pc = "done"
              /\ cli[c].result = Return(1, "does not exist")
              /\ cli[c].lookups = 1
              /\ cli[c].gets = 0 /\ cli[c].posts = 0
              /\ ~cli[c].archived)
    /\ [][\A c \in Clients :
            cli[c].pc = "done" => cli'[c].pc \in {"done", "idle"}]_vars

\* C6 witness: send was given a file, a compress flag and a code nobody
\* registered, and returned 1.
C6_Witness ==
    \E c \in Clients :
      /\ cli[c].pc = "done"
      /\ IsNone(cli[c].info)
      /\ cli[c].arg = List(<<APath, BPath>>)
      /\ cli[c].result.code = 1
      /\ \A r \in registry : r.name # InstanceName(cli[c].code)

\* C7: send returns 0 only if its one POST to /upload succeeded.
C7_SuccessOnlyAfterSuccessfulPost ==
    \A c \in Clients :
      (cli[c].pc = "done" /\ cli[c].result.kind = "return"
         /\ cli[c].result.code = 0) =>
        /\ cli[c].posts = 1
        /\ cli[c].post = PyInt(200)

\* Whether process s has started its site.
Started(s) == srv[s].pc \in {"bound", "serving", "crashed"}

\* C8: every send_server call given a text (the empty string included, a
\* file given or not) starts a text sender whose GET / returns that text.
C8_TextPrecedence ==
    \A s \in Servers :
      (Started(s) /\ ~IsNone(srv[s].text)) =>
        /\ HandlerOf(srv[s].app, "/airshare") = "_is_airshare_text_sender"
        /\ Respond(srv[s].app, "/").status = 200
        /\ Respond(srv[s].app, "/").text = srv[s].text

\* The role of a call: lines 207 and 211.
Role(l) ==
    IF ~IsNone(l.text) THEN "TextSender"
    ELSE IF Truthy(l.file) THEN "FileSender"
    ELSE "none"

\* The identifier each role answers GET /airshare with.
RoleText(role) ==
    IF role = "TextSender" THEN Str(<<"Text Sender">>)
    ELSE Str(<<"File Sender">>)

\* The paths an application routes.
RoutedPaths(app) == {r.path : r \in app.routes}

\* C9: a serving send_server has one role, text sender or file sender; GET
\* /airshare answers that role's identifier, /download is routed exactly
\* for a file sender, and while the server serves, whatever requests it
\* gets, its role, its routes and its application state do not change.
C9_SingleFixedRole ==
    /\ [](\A s \in Servers :
            srv[s].pc = "serving" =>
              /\ Role(srv[s]) \in {"TextSender", "FileSender"}
              /\ Respond(srv[s].app, "/airshare").status = 200
              /\ Respond(srv[s].app, "/airshare").text
                   = RoleText(Role(srv[s]))
              /\ \A r1, r2 \in srv[s].app.routes :
                   r1.path = r2.path => r1 = r2
              /\ RoutedPaths(srv[s].app) =
                   IF Role(srv[s]) = "FileSender"
                   THEN {"/", "/airshare", "/download"}
                   ELSE {"/", "/airshare"})
    /\ [][\A s \in Servers :
            (srv[s].pc = "serving" /\ srv'[s].pc = "serving") =>
              /\ srv'[s].app = srv[s].app
              /\ Role(srv'[s]) = Role(srv[s])]_vars

\* C9 witness: a serving text sender has just answered 404 to a request
\* for /download.
C9_Witness ==
    \E s \in Servers :
      /\ srv[s].pc = "serving"
      /\ Role(srv[s]) = "TextSender"
      /\ ~IsNone(resp)
      /\ resp.kind = "/download"
      /\ resp.status = 404

\* The concatenation of a sequence of chunks.
RECURSIVE Concat(_)
Concat(chunks) ==
    IF chunks = <<>> THEN <<>> ELSE Head(chunks) \o Concat(Tail(chunks))

\* C10: for an artifact of S bytes that is not written while it is shared,
\* GET /download sets content-length to S, every chunk written has between
\* 1 and ChunkSize bytes, the chunks written so far are the artifact's
\* first bytes in order, and the stream ends exactly when all S bytes are
\* written.
C10_DownloadByteExact ==
    \A d \in Downloads :
      (dl[d].state \in {"streaming", "done"} /\ ~dl[d].touched)
        => LET artifact == dl[d].artifact
               S        == Len(artifact)
           IN  /\ dl[d].headers.content_length = ToString(S)
               /\ \A i \in 1..Len(dl[d].chunks) :
                    /\ Len(dl[d].chunks[i]) >= 1
                    /\ Len(dl[d].chunks[i]) <= ChunkSize
               /\ dl[d].pos <= S
               /\ Concat(dl[d].chunks) = SubSeq(artifact, 1, dl[d].pos)
               /\ dl[d].state = "done" => Concat(dl[d].chunks) = artifact

\* C10 witness: a finished download of an artifact whose size is no
\* multiple of the chunk size, ending in a short chunk.
C10_Witness ==
    \E d \in Downloads :
      /\ dl[d].state = "done"
      /\ ~dl[d].touched
      /\ Len(dl[d].artifact) = ChunkSize + 1
      /\ Len(dl[d].chunks) = 2
      /\ Len(dl[d].chunks[2]) = 1

\* The paths a `file` argument names, as a list.
PathsOf(arg) == IF arg.kind = "str" THEN <<arg.val>> ELSE arg.val

\* The packaging policy: an archive is made when compression is asked for,
\* when there is more than one path, or when the single path is a directory.
PolicyArchives(paths, compress) ==
    compress \/ Len(paths) > 1 \/ IsDir(paths[1])

\* A send_server call in the file role that is past its packaging step.
ServerPackaged(s) ==
    /\ srv[s].pc \in {"register", "announce", "nonunique", "site",
                      "bind_failed", "bound", "serving"}
    /\ IsNone(srv[s].text)
    /\ ~IsNone(srv[s].file)

\* A send call that is past its packaging step.
ClientPackaged(c) ==
    /\ cli[c].pc \in {"query", "post", "done"}
    /\ ~IsNone(cli[c].file)

\* C11: the artifact is an archive exactly when compress is set, or there
\* is more than one path, or the single path is a directory; otherwise the
\* artifact is the single given file and its display name is that file's
\* base name.  send and send_server (file role) decide the same for the same
\* paths and flag.
C11_PackagingPolicy ==
    /\ \A s \in Servers :
         ServerPackaged(s) =>
           LET paths == srv[s].file.val
               built == srv[s].pc \in {"bind_failed", "bound", "serving"}
           IN  /\ srv[s].archived = PolicyArchives(paths, srv[s].compress)
               /\ (srv[s].archived /\ ~built) =>
                     /\ srv[s].content = Str(ZipPath(s))
                     /\ srv[s].name = Str(ZipName)
               /\ (srv[s].archived /\ built) =>
                     /\ srv[s].app.file_path = Str(ZipPath(s))
                     /\ srv[s].app.file_name = Str(ZipName)
               /\ (~srv[s].archived /\ ~built) =>
                     srv[s].content = Str(paths[1])
               /\ (~srv[s].archived /\ built) =>
                     /\ srv[s].app.file_path = Str(RealPath(paths[1]))
                     /\ srv[s].app.file_name = Str(BaseName(paths[1]))
    /\ \A c \in Clients :
         ClientPackaged(c) =>
           LET paths == PathsOf(cli[c].arg)
           IN  /\ cli[c].archived = PolicyArchives(paths, cli[c].compress)
               /\ cli[c].archived =>
                     /\ cli[c].file = Str(ZipPath(c))
                     /\ cli[c].name = Str(ZipName)
               /\ ~cli[c].archived =>
                     /\ cli[c].file = Str(paths[1])
                     /\ cli[c].name = Str(BaseName(paths[1]))
    /\ \A s \in Servers, c \in Clients :
         (/\ ServerPackaged(s)
          /\ ClientPackaged(c)
          /\ PathsOf(cli[c].arg) = srv[s].file.val
          /\ cli[c].compress = srv[s].compress)
           => cli[c].archived = srv[s].archived

\* C11 witness: send and send_server were both given one directory without
\* compress, and both made an archive.
C11_Witness ==
    \E s \in Servers, c \in Clients :
      /\ ServerPackaged(s)
      /\ ClientPackaged(c)
      /\ srv[s].file.val = <<DirPath>>
      /\ PathsOf(cli[c].arg) = <<DirPath>>
      /\ ~srv[s].compress /\ ~cli[c].compress
      /\ srv[s].archived /\ cli[c].archived

\* An answer to a request for `/` or `/download` that a route handled.
ContentRequest ==
    /\ ~IsNone(resp)
    /\ resp.kind \in {"/", "/download"}
    /\ resp.handler # "none"

\* C12 as stated: in both roles every request to `/` and every request to
\* `/download` emits the content-transferred event.
C12_EventOnEveryRequest ==
    /\ ContentRequest => resp.event
    /\ \A d \in Downloads : dl[d].state # "idle" => dl[d].event

\* C12: a request emits the content-transferred event exactly when it is
\* handled by a handler that sends the content: `/` of a text sender and
\* `/download` of a file sender.  `/` of a file sender, which renders the
\* download page, emits none.
C12_EventOnContentTransfer ==
    /\ ContentRequest => (resp.event <=> resp.handler = "_text_sender")
    /\ (ContentRequest /\ resp.handler = "_download_page") => ~resp.event
    /\ \A d \in Downloads : dl[d].state # "idle" => dl[d].event

\* C12 witness: a file sender rendered its download page without an event
\* and a download of its file emitted one.
C12_Witness ==
    /\ ContentRequest
    /\ resp.handler = "_download_page"
    /\ resp.status = 200
    /\ ~resp.event
    /\ \E d \in Downloads : dl[d].state = "done" /\ dl[d].event

\* C13: every /download response reports the content-length and the
\* content-type of the artifact as it was when the server started, even if
\* the file on disk was written since.
C13_MetadataDerivedOnce ==
    \A d \in Downloads :
      dl[d].state # "idle" =>
        /\ dl[d].headers.content_length = ToString(Len(dl[d].artifact))
        /\ dl[d].headers.content_type = Mime(dl[d].artifact)

\* C14: send makes its archive only after the role query has answered
\* "Upload Receiver"; a call that ended in a role mismatch made no archive.
C14_PackagingAfterRoleQuery ==
    \A c \in Clients :
      /\ cli[c].archived =>
            /\ ~IsNone(cli[c].airshare_type)
            /\ cli[c].airshare_type.text = UploadReceiverText
      /\ (cli[c].pc = "done"
            /\ cli[c].result = Return(1, "is not an upload receiver"))
           => ~cli[c].archived

\* A send_server call that failed at the lookup or at the content check.
FailedStart(s) == srv[s].pc \in {"collision", "nocontent"}

C16_InterleavedDownloads ==
    /\ [](\A d \in Downloads :
            dl[d].state = "streaming" => ENABLED DownloadChunk(d))
    /\ [](\A d \in Downloads :
            (dl[d].state \in {"streaming", "done"} /\ ~dl[d].touched) =>
              /\ Concat(dl[d].chunks)
                    = SubSeq(dl[d].artifact, 1, Len(Concat(dl[d].chunks)))
              /\ dl[d].pos = Len(Concat(dl[d].chunks))
              /\ dl[d].state = "done" =>
                    Concat(dl[d].chunks) = dl[d].artifact)
    /\ [][\A d, e \in Downloads :
            (/\ d # e
             /\ dl[d].state = "streaming"
             /\ dl'[d].state \in {"streaming", "done"}
             /\ dl'[d] # dl[d]
             /\ disk' = disk)
              => dl'[e] = dl[e]]_vars

\* C16 witness: two requests on one server are both part way through the
\* same untouched artifact, at different positions.
C16_Witness ==
    \E d, e \in Downloads :
      /\ d # e
      /\ dl[d].state = "streaming" /\ dl[e].state = "streaming"
      /\ dl[d].server = dl[e].server
      /\ ~dl[d].touched /\ ~dl[e].touched
      /\ dl[d].artifact = dl[e].artifact
      /\ Len(dl[d].artifact) = 2 * ChunkSize
      /\ Len(dl[d].chunks) = 1
      /\ Len(dl[e].chunks) = 2

\* A send_server call whose record is registered and live.
Registered(s) == ~IsNone(srv[s].info) /\ srv[s].info \in registry

\* C17: once send_server(code=c, port=p) has registered, the lookup of a
\* send(code=c) resolves exactly the record of that server, with its address
\* and port p, and the lookup of a send with another code never resolves to
\* that record.
C17_DiscoveryRoundTrip ==
    [][\A c \in Clients, s \in Servers :
         (cli[c].pc = "idle" /\ cli'[c].pc # "idle" /\ Registered(s)) =>
           IF cli'[c].code = srv[s].code
           THEN /\ cli'[c].info = srv[s].info
                /\ UrlOf(cli'[c].info)
                     = Url(inet_ntoa(get_local_ip_address(s)),
                           srv[s].info.port)
           ELSE cli'[c].info # srv[s].info]_vars

\* The sockets on which the process that registered record r listens.
ListenersOf(r) == {k \in sockets : k.owner = r.owner}

C19_UniformInvalidInput ==
    \A c \in Clients :
      (/\ cli[c].pc = "done"
       /\ ~IsNone(cli[c].info)
       /\ (IsNone(cli[c].arg) \/ IsEmptyForm(cli[c].arg)))
        => /\ cli[c].result = Raise("ValueError")
           /\ ~cli[c].archived
           /\ cli[c].gets = 0
           /\ cli[c].posts = 0

====
